---- MODULE Spec2Model ----
(***************************************************************************)
(* A model of the schema-driven intake runner (src/v5_runner.py): the      *)
(* nested state document, the path utilities, deterministic capture, the   *)
(* extraction-agent safety filter, the validator and the turn loop of      *)
(* run(); and of the patch engine (src/apply_patch.py).                    *)
(*                                                                         *)
(* Representation.  A Python str is a sequence of TLA+ strings:            *)
(*   - user text and enum values are sequences of one-character strings    *)
(*     ("3000" is <<"3","0","0","0">>), so that lower(), strip(), the      *)
(*     regular expressions and difflib are computed character by character;*)
(*   - a path is the sequence of its lexical tokens: names, "." and index  *)
(*     tokens "[0]", "[1]", ... ("income_sources[0].amount" is             *)
(*     <<"income_sources","[0]",".","amount">>);                           *)
(*   - a text that the program only stores and prints (a question, a       *)
(*     repeat prompt) is a one-element sequence.                           *)
(* A JSON value is a record tagged by t: null, int, str, bool, list and    *)
(* dict.  A dict is the sequence of its (key, value) pairs in insertion    *)
(* order, the order Python's dict iterates in.                             *)
(***************************************************************************)
EXTENDS Integers, Sequences, FiniteSets, TLC

VARIABLES
    workflow,     \* the loaded workflow (schema): a sequence of stages
    state,        \* the in-memory state document of run()
    saved,        \* the document last written by save_state
    need_prompt,  \* run()'s local need_prompt
    pc,           \* "top" | "input" | "done" | "exit" | "crashed"
    last_turn,    \* observation: the branch of the loop body the last step took
    script,       \* observation: progress along the end-to-end script
    turns,        \* the number of user turns taken so far
    args,         \* the arguments of a call of apply_patches or set_by_path
    ret           \* what that call left behind; Pending before it

\* the variables of a direct call of a function
call == <<args, ret>>

vars == <<workflow, state, saved, need_prompt, pc, last_turn, script, turns, args, ret>>

----------------------------------------------------------------------------
(* Bounds of the model *)

\* the number of user turns of a conversation the model follows
MaxTurns == 3

\* the number of patches of a batch handed to apply_patches
MaxBatch == 2

\* the number of turns of a run whose answers are all good ones
MaxGoodTurns == 5

\* the largest index array_index records in a direct call of
\* resolve_dynamic_path
MaxIndex == 2

----------------------------------------------------------------------------
(* Notation *)

\* a local name for a value: With(e, LAMBDA x : body) is body where x is e
With(e, F(_)) == F(e)

----------------------------------------------------------------------------
(* JSON values *)

Null == [t |-> "null"]
JInt(n) == [t |-> "int", n |-> n]
JStr(s) == [t |-> "str", s |-> s]
JBool(b) == [t |-> "bool", b |-> b]
JList(l) == [t |-> "list", l |-> l]
JDict(kv) == [t |-> "dict", kv |-> kv]
EmptyDict == JDict(<<>>)
EmptyList == JList(<<>>)

\* the outcome of an operation that raised an exception
Raise == [t |-> "raise"]

\* the outcome of a call that has not been made yet
Pending == [t |-> "pending"]

IsNull(v) == v.t = "null"
IsInt(v) == v.t = "int"
IsStr(v) == v.t = "str"
IsBool(v) == v.t = "bool"
IsList(v) == v.t = "list"
IsDict(v) == v.t = "dict"
IsRaise(v) == v.t = "raise"

\* Python truthiness of a JSON value (the `or` of line 652)
Truthy(v) ==
    CASE IsNull(v) -> FALSE
      [] IsInt(v) -> v.n # 0
      [] IsBool(v) -> v.b
      [] IsStr(v) -> Len(v.s) > 0
      [] IsList(v) -> Len(v.l) > 0
      [] IsDict(v) -> Len(v.kv) > 0
      [] OTHER -> TRUE

\* l with l[i] replaced by v
ListSet(l, i, v) == SubSeq(l, 1, i - 1) \o <<v>> \o SubSeq(l, i + 1, Len(l))

\* position of key k in a dict's pairs, 0 when absent
KeyPos(d, k) ==
    IF \E i \in 1..Len(d.kv) : d.kv[i].k = k
    THEN CHOOSE i \in 1..Len(d.kv) : d.kv[i].k = k
    ELSE 0

HasKey(d, k) == KeyPos(d, k) # 0

\* d[k] for a key that is present
DictGet(d, k) == d.kv[KeyPos(d, k)].v

\* d.get(k, default)
DictGetOr(d, k, default) == IF HasKey(d, k) THEN DictGet(d, k) ELSE default

\* d[k] = v: in place for a present key, appended for a new one
DictSet(d, k, v) ==
    IF HasKey(d, k)
    THEN JDict(ListSet(d.kv, KeyPos(d, k), [k |-> k, v |-> v]))
    ELSE JDict(Append(d.kv, [k |-> k, v |-> v]))

\* d.pop(k) for a key that is present
DictPop(d, k) ==
    LET p == KeyPos(d, k)
    IN JDict(SubSeq(d.kv, 1, p - 1) \o SubSeq(d.kv, p + 1, Len(d.kv)))

----------------------------------------------------------------------------
(* Path utilities (supports a.b.c and list[0]) *)

\* the index tokens of a path and the integers they spell
IndexTokens == <<"[0]", "[1]", "[2]", "[3]", "[4]", "[5]", "[6]", "[7]", "[8]", "[9]">>

IsIndexToken(tok) == \E i \in 1..Len(IndexTokens) : IndexTokens[i] = tok

\* int(idx) of line 230
IndexOfToken(tok) == (CHOOSE i \in 1..Len(IndexTokens) : IndexTokens[i] = tok) - 1

\* f"[{idx}]" of line 280
IndexToken(n) == IndexTokens[n + 1]

\* the key under which a dict holds the Python int n (line 271 on a dict)
IntKey(n) == <<"(int)", IndexToken(n)>>

\* path.split('.')
RECURSIVE SplitDot(_)
SplitDot(path) ==
    IF \E i \in 1..Len(path) : path[i] = "."
    THEN LET i == CHOOSE i \in 1..Len(path) :
                     /\ path[i] = "."
                     /\ \A j \in 1..(i - 1) : path[j] # "."
         IN <<SubSeq(path, 1, i - 1)>> \o SplitDot(SubSeq(path, i + 1, Len(path)))
    ELSE <<path>>

KeyPart(key) == [isidx |-> FALSE, key |-> key, idx |-> 0]
IdxPart(n) == [isidx |-> TRUE, key |-> <<>>, idx |-> n]

\* The parts one token of the split contributes: ok is FALSE when the
\* unpacking of token[:-1].split('[') raises.
TokenParts(piece) ==
    LET n == Len(piece)
        nidx == Cardinality({i \in 1..n : IsIndexToken(piece[i])})
    IN IF nidx > 0 /\ IsIndexToken(piece[n])
       THEN IF nidx = 1
            THEN [ok |-> TRUE,
                  parts |-> <<KeyPart(SubSeq(piece, 1, n - 1)),
                              IdxPart(IndexOfToken(piece[n]))>>]
            ELSE [ok |-> FALSE, parts |-> <<>>]
       ELSE [ok |-> TRUE, parts |-> <<KeyPart(piece)>>]

RECURSIVE ConcatParts(_)
ConcatParts(pieces) ==
    IF pieces = <<>> THEN [ok |-> TRUE, parts |-> <<>>]
    ELSE LET h == TokenParts(Head(pieces))
             r == ConcatParts(Tail(pieces))
         IN [ok |-> h.ok /\ r.ok, parts |-> h.parts \o r.parts]

\* _parse_path: the parts, with ok FALSE when it raises
_parse_path(path) == ConcatParts(SplitDot(path))

\* ref[p], Raise for the KeyError, IndexError or TypeError of Python
Subscript(ref, p) ==
    CASE IsDict(ref) ->
            LET k == IF p.isidx THEN IntKey(p.idx) ELSE p.key
            IN IF HasKey(ref, k) THEN DictGet(ref, k) ELSE Raise
      [] IsList(ref) ->
            IF p.isidx /\ p.idx < Len(ref.l) THEN ref.l[p.idx + 1] ELSE Raise
      [] IsStr(ref) ->
            IF p.isidx /\ p.idx < Len(ref.s) THEN JStr(<<ref.s[p.idx + 1]>>) ELSE Raise
      [] OTHER -> Raise

RECURSIVE GetParts(_, _)
GetParts(ref, parts) ==
    IF parts = <<>> THEN ref
    ELSE LET nxt == Subscript(ref, Head(parts))
         IN IF IsRaise(nxt) THEN Raise ELSE GetParts(nxt, Tail(parts))

\* get_by_path: None for any exception
get_by_path(doc, path) ==
    LET parsed == _parse_path(path)
    IN IF ~parsed.ok THEN Null
       ELSE LET r == GetParts(doc, parsed.parts)
            IN IF IsRaise(r) THEN Null ELSE r

\* l padded with `fill` until index p is addressable
RECURSIVE PadTo(_, _, _)
PadTo(l, p, fill) == IF Len(l) > p THEN l ELSE PadTo(Append(l, fill), p, fill)

\* The loop and the final assignment of set_by_path on the object ref, as the
\* value ref holds afterwards; Raise when a statement raises (the containers
\* created before the exception are not kept: the exception ends run()).
RECURSIVE SetParts(_, _, _)
SetParts(ref, parts, value) ==
    LET p == Head(parts)
    IN IF Len(parts) = 1
       THEN IF p.isidx
            THEN CASE IsList(ref) ->
                        JList(ListSet(PadTo(ref.l, p.idx, Null), p.idx + 1, value))
                   [] IsDict(ref) ->
                        IF Len(ref.kv) <= p.idx THEN Raise
                        ELSE DictSet(ref, IntKey(p.idx), value)
                   [] OTHER -> Raise
            ELSE IF IsDict(ref) THEN DictSet(ref, p.key, value) ELSE Raise
       ELSE IF p.isidx
            THEN IF IsList(ref)
                 THEN LET padded == PadTo(ref.l, p.idx, EmptyDict)
                          child == SetParts(padded[p.idx + 1], Tail(parts), value)
                      IN IF IsRaise(child) THEN Raise
                         ELSE JList(ListSet(padded, p.idx + 1, child))
                 ELSE IF /\ IsDict(ref)
                         /\ Len(ref.kv) > p.idx
                         /\ HasKey(ref, IntKey(p.idx))
                 THEN LET child == SetParts(DictGet(ref, IntKey(p.idx)),
                                            Tail(parts), value)
                      IN IF IsRaise(child) THEN Raise
                         ELSE DictSet(ref, IntKey(p.idx), child)
                 ELSE Raise
            ELSE IF IsDict(ref)
                 THEN LET old == DictGetOr(ref, p.key,
                                     IF parts[2].isidx THEN EmptyList ELSE EmptyDict)
                          child == SetParts(old, Tail(parts), value)
                      IN IF IsRaise(child) THEN Raise
                         ELSE DictSet(ref, p.key, child)
                 ELSE Raise

\* set_by_path: the document afterwards, or Raise
set_by_path(doc, path, value) ==
    LET parsed == _parse_path(path)
    IN IF ~parsed.ok THEN Raise ELSE SetParts(doc, parsed.parts, value)

\* s.startswith(prefix)
StartsWith(s, prefix) ==
    /\ Len(prefix) <= Len(s)
    /\ SubSeq(s, 1, Len(prefix)) = prefix

\* s.replace(old, new): every non-overlapping occurrence, left to right
RECURSIVE Replace(_, _, _)
Replace(s, old, new) ==
    IF s = <<>> \/ old = <<>> THEN s
    ELSE IF StartsWith(s, old)
         THEN new \o Replace(SubSeq(s, Len(old) + 1, Len(s)), old, new)
         ELSE <<Head(s)>> \o Replace(Tail(s), old, new)

\* state.get("workflow_runtime", {})
Runtime(doc) == DictGetOr(doc, <<"workflow_runtime">>, EmptyDict)

\* runtime.get("array_index", {})
Indices(doc) == DictGetOr(Runtime(doc), <<"array_index">>, EmptyDict)

RECURSIVE ResolveFrom(_, _, _)
ResolveFrom(indices, i, path) ==
    IF i > Len(indices.kv) THEN path
    ELSE LET arr_path == indices.kv[i].k
             idx == indices.kv[i].v.n
         IN ResolveFrom(indices, i + 1,
                Replace(path, arr_path \o <<"[0]">>, arr_path \o <<IndexToken(idx)>>))

resolve_dynamic_path(doc, path) == ResolveFrom(Indices(doc), 1, path)

\* get_array_parent is used only to build the prompt of the extraction agent

----------------------------------------------------------------------------
(* Text: str methods and regular expressions, character by character *)

Digits == <<"0", "1", "2", "3", "4", "5", "6", "7", "8", "9">>
LowerLetters == <<"a", "b", "c", "d", "e", "f", "g", "h", "i", "j", "k", "l", "m",
                  "n", "o", "p", "q", "r", "s", "t", "u", "v", "w", "x", "y", "z">>
UpperLetters == <<"A", "B", "C", "D", "E", "F", "G", "H", "I", "J", "K", "L", "M",
                  "N", "O", "P", "Q", "R", "S", "T", "U", "V", "W", "X", "Y", "Z">>
\* the characters of the model's texts in code-point order
CodePoints == <<" ", "$", ",", "-", "/">> \o Digits \o UpperLetters \o <<"_">> \o LowerLetters

PosIn(seq, c) ==
    IF \E i \in 1..Len(seq) : seq[i] = c
    THEN CHOOSE i \in 1..Len(seq) : seq[i] = c
    ELSE 0

IsDigit(c) == PosIn(Digits, c) # 0
DigitValue(c) == PosIn(Digits, c) - 1
IsLowerLetter(c) == PosIn(LowerLetters, c) # 0
IsSpace(c) == c = " "

LowerChar(c) == IF PosIn(UpperLetters, c) # 0 THEN LowerLetters[PosIn(UpperLetters, c)] ELSE c

RECURSIVE MapLower(_)
MapLower(s) == IF s = <<>> THEN <<>> ELSE <<LowerChar(Head(s))>> \o MapLower(Tail(s))

\* s.lower()
lower(s) == MapLower(s)

RECURSIVE LStrip(_)
LStrip(s) == IF s # <<>> /\ IsSpace(Head(s)) THEN LStrip(Tail(s)) ELSE s

RECURSIVE RStrip(_)
RStrip(s) == IF s # <<>> /\ IsSpace(s[Len(s)]) THEN RStrip(SubSeq(s, 1, Len(s) - 1)) ELSE s

\* s.strip()
strip(s) == RStrip(LStrip(s))

\* s.replace(c, "") for a single character c
RECURSIVE RemoveChar(_, _)
RemoveChar(s, c) ==
    IF s = <<>> THEN <<>>
    ELSE (IF Head(s) = c THEN <<>> ELSE <<Head(s)>>) \o RemoveChar(Tail(s), c)

\* re.sub(r"[^a-z ]", "", s)
RECURSIVE KeepLettersAndSpaces(_)
KeepLettersAndSpaces(s) ==
    IF s = <<>> THEN <<>>
    ELSE (IF IsLowerLetter(Head(s)) \/ IsSpace(Head(s)) THEN <<Head(s)>> ELSE <<>>)
         \o KeepLettersAndSpaces(Tail(s))

\* v.replace("_", " ")
RECURSIVE UnderscoresToSpaces(_)
UnderscoresToSpaces(s) ==
    IF s = <<>> THEN <<>>
    ELSE <<IF Head(s) = "_" THEN " " ELSE Head(s)>> \o UnderscoresToSpaces(Tail(s))

\* s.isdigit()
isdigit(s) == Len(s) > 0 /\ \A i \in 1..Len(s) : IsDigit(s[i])

\* int(s) for a string of digits
RECURSIVE ParseInt(_)
ParseInt(s) ==
    IF s = <<>> THEN 0
    ELSE ParseInt(SubSeq(s, 1, Len(s) - 1)) * 10 + DigitValue(s[Len(s)])

\* sub in s
Contains(s, sub) ==
    \E i \in 1..(Len(s) - Len(sub) + 1) : SubSeq(s, i, i + Len(sub) - 1) = sub

AllSpaces(s) == \A i \in 1..Len(s) : IsSpace(s[i])

\* re.search(r"\d", s)
HasDigit(s) == \E i \in 1..Len(s) : IsDigit(s[i])

\* re.search(r"\d+\s*[-/to]+\s*\d+", text): a digit, then spaces, then one or
\* more of - / t o, then spaces, then a digit
IsRangeSeparator(c) == c \in {"-", "/", "t", "o"}

LooksLikeRange(text) ==
    \E i, j \in 1..Len(text) :
        /\ i < j
        /\ IsDigit(text[i])
        /\ IsDigit(text[j])
        /\ \E a, b \in (i + 1)..(j - 1) :
              /\ a <= b
              /\ AllSpaces(SubSeq(text, i + 1, a - 1))
              /\ \A m \in a..b : IsRangeSeparator(text[m])
              /\ AllSpaces(SubSeq(text, b + 1, j - 1))

\* the vague qualifiers of line 365
Qualifiers == {<<"a", "b", "o", "u", "t">>, <<"a", "r", "o", "u", "n", "d">>,
               <<"r", "o", "u", "g", "h">>, <<"a", "p", "p", "r", "o", "x">>,
               <<"m", "a", "y", "b", "e">>, <<"d", "e", "p", "e", "n", "d", "s">>}

\* re.fullmatch(r"\$?\s*(\d+(\.\d+)?)\s*k?", text) as the digits of group 1, or
\* <<>> when there is no match.  The texts of the model hold no ".", so the
\* optional decimal part of group 1 is always empty.
CurrencyDigits(text) ==
    LET n == Len(text)
        ok(a, b, e) ==   \* digits are text[a..b], the match ends at e
            /\ a <= b
            /\ \/ AllSpaces(SubSeq(text, 1, a - 1))
               \/ (a > 1 /\ text[1] = "$" /\ AllSpaces(SubSeq(text, 2, a - 1)))
            /\ \A m \in a..b : IsDigit(text[m])
            /\ AllSpaces(SubSeq(text, b + 1, e))
            /\ \/ e = n
               \/ (e = n - 1 /\ text[n] = "k")
    IN IF \E a, b \in 1..n : \E e \in b..n : ok(a, b, e)
       THEN LET a == CHOOSE a \in 1..n : \E b \in a..n : \E e \in b..n : ok(a, b, e)
                b == CHOOSE b \in a..n : \E e \in b..n : ok(a, b, e)
            IN SubSeq(text, a, b)
       ELSE <<>>

\* re.fullmatch(r"(0?[1-9]|[12][0-9]|3[01])/(0?[1-9]|1[0-2])/\d{4}", text)
IsDayText(s) ==
    \/ Len(s) = 1 /\ IsDigit(s[1]) /\ s[1] # "0"
    \/ Len(s) = 2 /\ s[1] = "0" /\ IsDigit(s[2]) /\ s[2] # "0"
    \/ Len(s) = 2 /\ s[1] \in {"1", "2"} /\ IsDigit(s[2])
    \/ Len(s) = 2 /\ s[1] = "3" /\ s[2] \in {"0", "1"}

IsMonthText(s) ==
    \/ Len(s) = 1 /\ IsDigit(s[1]) /\ s[1] # "0"
    \/ Len(s) = 2 /\ s[1] = "0" /\ IsDigit(s[2]) /\ s[2] # "0"
    \/ Len(s) = 2 /\ s[1] = "1" /\ s[2] \in {"0", "1", "2"}

\* s.split("/")
RECURSIVE SplitSlash(_)
SplitSlash(s) ==
    IF \E i \in 1..Len(s) : s[i] = "/"
    THEN LET i == CHOOSE i \in 1..Len(s) :
                     /\ s[i] = "/"
                     /\ \A j \in 1..(i - 1) : s[j] # "/"
         IN <<SubSeq(s, 1, i - 1)>> \o SplitSlash(SubSeq(s, i + 1, Len(s)))
    ELSE <<s>>

LooksLikeDate(text) ==
    LET f == SplitSlash(text)
    IN /\ Len(f) = 3
       /\ IsDayText(f[1])
       /\ IsMonthText(f[2])
       /\ Len(f[3]) = 4
       /\ isdigit(f[3])

----------------------------------------------------------------------------
(* Enum normalization: normalize_enum and difflib.get_close_matches *)

\* the length of the longest common run of a from i and b from j (0-based),
\* inside a[..ahi) and b[..bhi)
RECURSIVE RunLength(_, _, _, _, _, _)
RunLength(a, b, i, j, ahi, bhi) ==
    IF i < ahi /\ j < bhi /\ a[i + 1] = b[j + 1]
    THEN 1 + RunLength(a, b, i + 1, j + 1, ahi, bhi)
    ELSE 0

\* SequenceMatcher.get_matching_blocks, as the number of matched characters:
\* find_longest_match picks the longest block, of those the one that starts
\* earliest in a, of those the one that starts earliest in b, and the pieces
\* to its left and to its right are matched recursively.  (No character is
\* junk: the autojunk heuristic needs 200 characters.)
RECURSIVE Matches(_, _, _, _, _, _)
Matches(a, b, alo, ahi, blo, bhi) ==
    IF alo >= ahi \/ blo >= bhi THEN 0
    ELSE LET I == alo..(ahi - 1)
             J == blo..(bhi - 1)
             best == CHOOSE k \in 0..(ahi - alo) :
                        /\ \A i \in I : \A j \in J : RunLength(a, b, i, j, ahi, bhi) <= k
                        /\ k = 0 \/ \E i \in I : \E j \in J : RunLength(a, b, i, j, ahi, bhi) = k
         IN IF best = 0 THEN 0
            ELSE LET i == CHOOSE i \in I :
                             /\ \E j \in J : RunLength(a, b, i, j, ahi, bhi) = best
                             /\ \A i2 \in alo..(i - 1) : \A j \in J :
                                    RunLength(a, b, i2, j, ahi, bhi) < best
                     j == CHOOSE j \in J :
                             /\ RunLength(a, b, i, j, ahi, bhi) = best
                             /\ \A j2 \in blo..(j - 1) :
                                    RunLength(a, b, i, j2, ahi, bhi) < best
                 IN best + Matches(a, b, alo, i, blo, j)
                         + Matches(a, b, i + best, ahi, j + best, bhi)

\* SequenceMatcher(None, a, b).ratio() as the fraction num/den (1/1 for two
\* empty strings)
Ratio(a, b) ==
    IF Len(a) + Len(b) = 0 THEN [num |-> 1, den |-> 1]
    ELSE [num |-> 2 * Matches(a, b, 0, Len(a), 0, Len(b)), den |-> Len(a) + Len(b)]

\* ratio >= 0.6 (cutoff=0.6 of line 330)
ClearsCutoff(r) == r.num * 10 >= 6 * r.den

RatioLess(r1, r2) == r1.num * r2.den < r2.num * r1.den

\* s < t in Python's string order
RECURSIVE StrLess(_, _)
StrLess(s, t) ==
    IF t = <<>> THEN FALSE
    ELSE IF s = <<>> THEN TRUE
    ELSE IF Head(s) = Head(t) THEN StrLess(Tail(s), Tail(t))
    ELSE PosIn(CodePoints, Head(s)) < PosIn(CodePoints, Head(t))

\* the ratio of each possibility with the word
RECURSIVE Ratios(_, _)
Ratios(word, possibilities) ==
    IF possibilities = <<>> THEN <<>>
    ELSE <<Ratio(Head(possibilities), word)>> \o Ratios(word, Tail(possibilities))

\* the index of the possibility with the highest ratio r, then the greatest
\* string, among those that clear the cutoff; 0 when none does
BestMatch(possibilities, r) ==
    LET good == {i \in 1..Len(r) : ClearsCutoff(r[i])}
        better(i, j) ==
            \/ RatioLess(r[j], r[i])
            \/ /\ ~RatioLess(r[i], r[j])
               /\ StrLess(possibilities[j], possibilities[i])
    IN IF good = {} THEN 0
       ELSE CHOOSE i \in good :
                /\ \A j \in good : possibilities[j] = possibilities[i] \/ better(i, j)
                /\ \A j \in good : possibilities[j] = possibilities[i] => i <= j

\* get_close_matches(word, possibilities, n=1, cutoff=0.6): the index of the
\* best possibility (highest ratio, then greatest string), 0 when none clears
\* the cutoff.  The matcher's first sequence is the possibility, its second
\* the word.
get_close_matches(word, possibilities) ==
    BestMatch(possibilities, Ratios(word, possibilities))

\* normalize_enum(value, allowed): the allowed value, or <<>> for None
normalize_enum(value, allowed) ==
    LET first(S) == CHOOSE i \in S : \A j \in S : i <= j
        among(v, shown) ==
            LET exact == {i \in 1..Len(allowed) : shown[i] = v}
            IN IF exact # {} THEN allowed[first(exact)]
               ELSE With(get_close_matches(v, shown), LAMBDA m :
                       IF m = 0 THEN <<>>
                       ELSE allowed[first({i \in 1..Len(allowed) : shown[i] = shown[m]})])
    IN among(KeepLettersAndSpaces(strip(lower(value))),
             [i \in 1..Len(allowed) |-> UnderscoresToSpaces(allowed[i])])

----------------------------------------------------------------------------
(* Workflow interpreter *)

\* A field descriptor.  values is the list of an enum's allowed values;
\* has_min/has_max say whether the descriptor has the keys "min" and "max".
Field(path, type) ==
    [path |-> path, type |-> type, values |-> <<>>,
     has_min |-> FALSE, min |-> 0, has_max |-> FALSE, max |-> 0]

EnumField(path, values) == [Field(path, "enum") EXCEPT !.values = values]

CurrencyField(path, min, max) ==
    [Field(path, "currency") EXCEPT !.has_min = TRUE, !.min = min,
                                    !.has_max = TRUE, !.max = max]

\* A stage: repeat says whether it has a section_repeat.
Stage(fields) ==
    [fields |-> fields, repeat |-> FALSE, array_path |-> <<>>, repeat_prompt |-> <<>>]

RepeatingStage(fields, array_path, repeat_prompt) ==
    [fields |-> fields, repeat |-> TRUE, array_path |-> array_path,
     repeat_prompt |-> repeat_prompt]

RECURSIVE flatten_fields(_)
flatten_fields(wf) ==
    IF wf = <<>> THEN <<>> ELSE Head(wf).fields \o flatten_fields(Tail(wf))

\* the paths of a list of fields (the comprehension of line 607)
RECURSIVE PathsOf(_)
PathsOf(fields) ==
    IF fields = <<>> THEN <<>> ELSE <<Head(fields).path>> \o PathsOf(Tail(fields))

\* section_map of run(): array_path -> the field paths of its stage, as a
\* dict in stage order
RECURSIVE SectionMapFrom(_, _)
SectionMapFrom(wf, acc) ==
    IF wf = <<>> THEN acc
    ELSE SectionMapFrom(Tail(wf),
            IF Head(wf).repeat
            THEN DictSet(acc, Head(wf).array_path, PathsOf(Head(wf).fields))
            ELSE acc)

section_map(wf) == SectionMapFrom(wf, EmptyDict)

InSeq(x, seq) == \E i \in 1..Len(seq) : seq[i] = x

\* a search that finds no field of the section
NoSectionStart(meta_fields, array_path) == Null

\* find_section_start: the 0-based index as a JSON int, Null for None
find_section_start(meta_fields, array_path) ==
    LET hits == {i \in 1..Len(meta_fields) :
                    StartsWith(meta_fields[i].path, array_path \o <<"[0]">>)}
    IN IF hits = {} THEN Null
       ELSE JInt((CHOOSE i \in hits : \A j \in hits : i <= j) - 1)

\* seq[i] with Python's indexing: negative i counts from the end
InRange(seq, i) == -Len(seq) <= i /\ i < Len(seq)
PyIndex(seq, i) == IF i >= 0 THEN seq[i + 1] ELSE seq[Len(seq) + i + 1]

is_last_field_of_section(meta_fields, idx, section_fields) ==
    IF idx + 1 >= Len(meta_fields) THEN TRUE
    ELSE ~InSeq(PyIndex(meta_fields, idx + 1).path, section_fields)

workflow_stage_repeat_prompt(wf, array_path) ==
    LET hits == {i \in 1..Len(wf) : wf[i].repeat /\ wf[i].array_path = array_path}
    IN IF hits = {} THEN <<"Do you have another Item?">>
       ELSE wf[CHOOSE i \in hits : \A j \in hits : i <= j].repeat_prompt

----------------------------------------------------------------------------
(* Pointer helpers.  workflow_runtime is a dict with the key active_index    *)
(* from load_state on; the turn loop ends with an exception as soon as it is *)
(* anything else.                                                            *)

ActiveIndexValue(doc) == DictGetOr(Runtime(doc), <<"active_index">>, JInt(0))

get_active_index(doc) == ActiveIndexValue(doc).n

SetRuntime(doc, key, value) ==
    DictSet(doc, <<"workflow_runtime">>, DictSet(Runtime(doc), key, value))

PopRuntime(doc, key) ==
    DictSet(doc, <<"workflow_runtime">>, DictPop(Runtime(doc), key))

\* set_active_index, with the index as a JSON value
set_active_index(doc, idx) == SetRuntime(doc, <<"active_index">>, idx)

advance_field(doc) == set_active_index(doc, JInt(get_active_index(doc) + 1))

----------------------------------------------------------------------------
(* Validation (presence only) *)

field_filled(doc, path) ==
    LET val == get_by_path(doc, resolve_dynamic_path(doc, path))
    IN IF IsNull(val) THEN FALSE
       ELSE IF IsStr(val) /\ strip(val.s) = <<>> THEN FALSE
       ELSE TRUE

----------------------------------------------------------------------------
(* Deterministic capture *)

\* What a capture does: captured is its return value, doc the document
\* afterwards, raised whether set_by_path raised.
Captured(doc, path, value) ==
    With(set_by_path(doc, path, value), LAMBDA d :
        IF IsRaise(d) THEN [captured |-> FALSE, doc |-> doc, raised |-> TRUE]
        ELSE [captured |-> TRUE, doc |-> d, raised |-> FALSE])

NotCaptured(doc) == [captured |-> FALSE, doc |-> doc, raised |-> FALSE]

deterministic_capture(doc, field_meta, user_text) ==
    LET type == field_meta.type
        capture(path, raw, text) ==
            IF type = "integer" /\ isdigit(text)
            THEN Captured(doc, path, JInt(ParseInt(text)))
            ELSE IF type = "currency"
            THEN IF LooksLikeRange(text) THEN NotCaptured(doc)
                 ELSE IF \E w \in Qualifiers : Contains(text, w) THEN NotCaptured(doc)
                 ELSE With(CurrencyDigits(text), LAMBDA m :
                         IF m = <<>> THEN NotCaptured(doc)
                         ELSE Captured(doc, path,
                                 JInt(ParseInt(m)
                                      * (IF Contains(text, <<"k">>) THEN 1000 ELSE 1))))
            ELSE IF type = "enum"
            THEN With(normalize_enum(text, field_meta.values), LAMBDA normalized :
                    IF normalized # <<>> THEN Captured(doc, path, JStr(normalized))
                    ELSE NotCaptured(doc))
            ELSE IF type = "string" /\ Len(raw) > 0
            THEN Captured(doc, path, JStr(raw))
            ELSE IF type = "date"
            THEN IF LooksLikeDate(text) THEN Captured(doc, path, JStr(text))
                 ELSE NotCaptured(doc)
            ELSE NotCaptured(doc)
    IN With(strip(user_text), LAMBDA raw :
          capture(resolve_dynamic_path(doc, field_meta.path), raw,
                  RemoveChar(RemoveChar(lower(raw), ","), "$")))

----------------------------------------------------------------------------
(* Validation *)

IsLeapYear(y) == (y % 4 = 0 /\ y % 100 # 0) \/ y % 400 = 0

DaysInMonth(y, m) ==
    IF m = 2 THEN (IF IsLeapYear(y) THEN 29 ELSE 28)
    ELSE IF m \in {4, 6, 9, 11} THEN 30
    ELSE 31

\* datetime.strptime(value, "%d/%m/%Y"): ok is FALSE when it raises
strptime(value) ==
    IF IsStr(value) /\ LooksLikeDate(value.s)
    THEN LET date(d, m, y) ==
                 [ok |-> y >= 1 /\ d <= DaysInMonth(y, m), day |-> d, month |-> m, year |-> y]
         IN With(SplitSlash(value.s), LAMBDA f :
                date(ParseInt(f[1]), ParseInt(f[2]), ParseInt(f[3])))
    ELSE [ok |-> FALSE, day |-> 0, month |-> 0, year |-> 0]

\* validate_value: the pair (ok, reason), the reason "" for None; now_year is
\* datetime.now().year
validate_value(field_meta, value, now_year) ==
    LET accept == [ok |-> TRUE, reason |-> ""]
        reject(reason) == [ok |-> FALSE, reason |-> reason]
    IN IF IsNull(value) THEN reject("missing")
       ELSE IF field_meta.type = "date"
       THEN With(strptime(value), LAMBDA dt :
               IF ~dt.ok THEN reject("invalid_format")
               ELSE IF dt.year < 1900 \/ dt.year > now_year - 18 THEN reject("invalid_age")
               ELSE accept)
       ELSE IF field_meta.type = "currency"
       THEN IF ~IsInt(value) THEN reject("not_numeric")
            ELSE IF field_meta.has_min /\ value.n < field_meta.min THEN reject("too_small")
            ELSE IF field_meta.has_max /\ value.n > field_meta.max THEN reject("too_large")
            ELSE accept
       ELSE accept

----------------------------------------------------------------------------
(* Extraction agent: the reply of the model and the safety filter *)

\* A proposal of the extractor.  path and target_array are JSON values: Null
\* when the key is missing.
Patch(operation, path, value, target_array) ==
    [operation |-> operation, path |-> path, value |-> value,
     target_array |-> target_array]

\* The reply of the model: kind is "raise" (generate_content raised),
\* "no_array" (the text holds no [ or no ]), "bad_json" (json.loads raised),
\* "non_dict" (an element of the array is not an object, so p.get raises) or
\* "patches" (an array of objects).
Reply(kind, patches) == [kind |-> kind, patches |-> patches]

\* a filter that lets every proposal through
KeepEveryPatch(patches, target_path) == patches

\* the SAFETY FILTER loop of lines 531-545
RECURSIVE SafetyFilter(_, _)
SafetyFilter(patches, target_path) ==
    IF patches = <<>> THEN <<>>
    ELSE LET p == Head(patches)
             rest == SafetyFilter(Tail(patches), target_path)
         IN IF p.operation = "add_object" THEN <<p>> \o rest
            ELSE IF IsStr(p.path) /\ p.path.s = target_path THEN <<p>> \o rest
            ELSE rest

\* extraction_agent: the list `safe`, [] for every failure
extraction_agent(doc, field_meta, reply) ==
    LET target_path == resolve_dynamic_path(doc, field_meta.path)
    IN IF reply.kind = "patches" THEN SafetyFilter(reply.patches, target_path)
       ELSE <<>>

----------------------------------------------------------------------------
(* Patch engine (src/apply_patch.py) *)

\* A patch is a JSON object with the keys operation, path, value and
\* justification, any of which may be missing.

\* The loops of set_nested_value on the dict `current`: the dict afterwards
RECURSIVE SetNested(_, _, _, _)
SetNested(current, keys, value, op) ==
    LET key == Head(keys)
    IN IF Len(keys) = 1
       THEN IF op = JStr(<<"append">>)
            THEN LET old == IF HasKey(current, key) /\ IsList(DictGet(current, key))
                            THEN DictGet(current, key)
                            ELSE EmptyList
                 IN DictSet(current, key, JList(Append(old.l, value)))
            ELSE DictSet(current, key, value)
       ELSE LET child == IF HasKey(current, key) /\ IsDict(DictGet(current, key))
                         THEN DictGet(current, key)
                         ELSE EmptyDict
            IN DictSet(current, key, SetNested(child, Tail(keys), value, op))

\* set_nested_value: the document afterwards; Raise for a document that is
\* not a dict (its item assignment or its `in` raises TypeError)
set_nested_value(data, path, value, op) ==
    IF IsDict(data) THEN SetNested(data, SplitDot(path), value, op) ELSE Raise

\* "workflow_flags.expense_primer_shown" of line 113
PrimerFlagPath == <<"workflow_flags", ".", "expense_primer_shown">>

\* path.lstrip("/")
RECURSIVE LStripSlash(_)
LStripSlash(path) ==
    IF path # <<>> /\ Head(path) = "/" THEN LStripSlash(Tail(path)) ELSE path

\* lines 107-110: the local `path` of the loop body, for a patch whose path
\* is a str
NormalizedPath(patch) ==
    LET path == DictGetOr(patch, <<"path">>, JStr(<<>>)).s
    IN IF StartsWith(path, <<"/">>)
       THEN Replace(LStripSlash(path), <<"/">>, <<".">>)
       ELSE path

\* line 110: the patch after patch["path"] = path
NormalizedPatch(patch) ==
    IF StartsWith(DictGetOr(patch, <<"path">>, JStr(<<>>)).s, <<"/">>)
    THEN DictSet(patch, <<"path">>, JStr(NormalizedPath(patch)))
    ELSE patch

\* lines 113-117: the condition of the primer check, which only logs
TargetsPrimerFlag(patch) ==
    /\ NormalizedPath(patch) = PrimerFlagPath
    /\ DictGetOr(patch, <<"value">>, Null) = JBool(TRUE)

\* "primer" not in last_message.lower(), for a justification that is a str
LacksPrimerKeyword(patch) ==
    ~Contains(lower(DictGetOr(patch, <<"justification">>, JStr(<<>>)).s),
              <<"p", "r", "i", "m", "e", "r">>)

\* a statement of lines 102-116 raises AttributeError: the patch is not a
\* dict, its path is not a str, or the justification read at line 116 is
\* not a str
PatchRaises(patch) ==
    \/ ~IsDict(patch)
    \/ ~IsStr(DictGetOr(patch, <<"path">>, JStr(<<>>)))
    \/ /\ TargetsPrimerFlag(patch)
       /\ ~IsStr(DictGetOr(patch, <<"justification">>, JStr(<<>>)))

\* what apply_patches has in hand after a patch: the document and `results`
Progress(doc, results) == [state |-> doc, results |-> results]

\* a patch that is reported blocked after it has been written to the document
WriteThenBlock(doc, results, patch) ==
    Progress(set_nested_value(doc, NormalizedPath(patch),
                              DictGetOr(patch, <<"value">>, Null),
                              DictGetOr(patch, <<"operation">>, Null)),
             Append(results, [status |-> "blocked", patch |-> patch]))

\* lines 118-119, at the level of the loop body: the patch is reported
\* blocked and the loop continues.  Lines 121-133 (the `none` patch reported
\* ignored, set_nested_value, the success outcome) follow the `continue` and
\* are never executed.
ReportBlocked(doc, results, patch) ==
    Progress(doc, Append(results, [status |-> "blocked", patch |-> patch]))

\* the loop of apply_patches from the i-th patch on
RECURSIVE ApplyFrom(_, _, _, _)
ApplyFrom(doc, results, patches, i) ==
    IF i > Len(patches) THEN [t |-> "returned", state |-> doc, results |-> results]
    ELSE IF PatchRaises(patches[i]) THEN [t |-> "raise", state |-> doc, results |-> <<>>]
    ELSE With(ReportBlocked(doc, results, NormalizedPatch(patches[i])), LAMBDA after :
            ApplyFrom(after.state, after.results, patches, i + 1))

\* apply_patches: the document as the call leaves it and the list it returns
apply_patches(doc, patches) == ApplyFrom(doc, <<>>, patches, 1)

----------------------------------------------------------------------------
(* Main loop (FSM): one turn of run() *)

\* What a turn leaves behind: the document, the saved document, need_prompt,
\* where the loop is, and the branch of the loop body that ended the turn.
\* A turn that raises leaves pc = "crashed"; the document is then shown as it
\* was before the turn (nothing reads it afterwards).
Outcome(doc, sv, np, branch) ==
    [state |-> doc, saved |-> sv, need_prompt |-> np, pc |-> "top", branch |-> branch]

Crash(doc, sv, np) ==
    [state |-> doc, saved |-> sv, need_prompt |-> np, pc |-> "crashed", branch |-> "crash"]

\* save_state: the saved document becomes the document
Saved(doc, np, branch) == Outcome(doc, doc, np, branch)

meta_fields == flatten_fields(workflow)

\* current_field for an index LoopTop has let through
current_field(doc) == PyIndex(meta_fields, get_active_index(doc))

IsExit(user) == lower(user) \in {<<"e", "x", "i", "t">>, <<"q", "u", "i", "t">>}

\* lines 628-635: the previous field is an enum and the answer normalizes to
\* one of its values; the value, or <<>>
PreviousAnswer(doc, user) ==
    LET last_field == DictGetOr(Runtime(doc), <<"last_field">>, Null)
        hits == {i \in 1..Len(meta_fields) :
                    IsStr(last_field) /\ meta_fields[i].path = last_field.s}
    IN IF ~Truthy(last_field) \/ hits = {} THEN <<>>
       ELSE LET prev_meta == meta_fields[CHOOSE i \in hits : \A j \in hits : i <= j]
            IN IF prev_meta.type = "enum"
               THEN normalize_enum(user, prev_meta.values)
               ELSE <<>>

\* lines 636-641
CorrectPrevious(doc, sv, user) ==
    With(set_by_path(doc, DictGet(Runtime(doc), <<"last_field">>).s,
                     JStr(PreviousAnswer(doc, user))), LAMBDA d1 :
        IF IsRaise(d1) THEN Crash(doc, sv, TRUE)
        ELSE Saved(set_active_index(d1, JInt(get_active_index(d1) - 1)),
                   TRUE, "correction"))

Awaiting(doc) == Truthy(DictGetOr(Runtime(doc), <<"awaiting_repeat_for">>, Null))

\* lines 649-664
RepeatYes(doc, sv) ==
    LET array_path == DictGet(Runtime(doc), <<"awaiting_repeat_for">>).s
    IN With(get_by_path(doc, array_path), LAMBDA found :
       With(IF Truthy(found) THEN found ELSE EmptyList, LAMBDA arr :
       With(IF IsList(arr)
            THEN set_by_path(doc, array_path, JList(Append(arr.l, EmptyDict)))
            ELSE Raise, LAMBDA d1 :
          IF IsRaise(d1) \/ ~HasKey(Runtime(doc), <<"repeat_prompt">>)
          THEN Crash(doc, sv, TRUE)
          ELSE With(SetRuntime(d1, <<"array_index">>,
                       DictSet(Indices(d1), array_path, JInt(Len(arr.l)))), LAMBDA d2 :
               With(set_active_index(d2, find_section_start(meta_fields, array_path)),
                    LAMBDA d3 :
                  Saved(PopRuntime(PopRuntime(d3, <<"awaiting_repeat_for">>),
                                   <<"repeat_prompt">>),
                        TRUE, "repeat_yes"))))))

\* lines 667-673
RepeatNo(doc, sv) ==
    IF ~HasKey(Runtime(doc), <<"repeat_prompt">>) THEN Crash(doc, sv, TRUE)
    ELSE Saved(advance_field(PopRuntime(PopRuntime(doc, <<"awaiting_repeat_for">>),
                                        <<"repeat_prompt">>)),
               TRUE, "repeat_no")

\* lines 645-679
RepeatDecision(doc, sv, user) ==
    LET answer == strip(lower(user))
    IN IF answer \in {<<"y", "e", "s">>, <<"y">>} THEN RepeatYes(doc, sv)
       ELSE IF answer \in {<<"n", "o">>, <<"n">>} THEN RepeatNo(doc, sv)
       ELSE Outcome(doc, sv, FALSE, "repeat_invalid")

\* lines 759-767: the loop over section_map.  Its `continue` continues that
\* loop, so the only effect of a last field of a section is the two keys and
\* the save; control then reaches line 769.
RECURSIVE SectionLoop(_, _, _, _, _)
SectionLoop(doc, sv, field_meta, sections, i) ==
    IF i > Len(sections.kv) THEN [state |-> doc, saved |-> sv, asked |-> FALSE]
    ELSE LET array_path == sections.kv[i].k
             fields == sections.kv[i].v
         IN IF InSeq(field_meta.path, fields)
               /\ is_last_field_of_section(meta_fields, get_active_index(doc), fields)
            THEN With(SetRuntime(SetRuntime(doc, <<"awaiting_repeat_for">>,
                                            JStr(array_path)),
                                 <<"repeat_prompt">>,
                                 JStr(workflow_stage_repeat_prompt(workflow, array_path))),
                      LAMBDA d2 :
                    [SectionLoop(d2, d2, field_meta, sections, i + 1)
                        EXCEPT !.asked = TRUE])
            ELSE SectionLoop(doc, sv, field_meta, sections, i + 1)

\* STEP 3 of the loop body, lines 748-779
Validate(doc, sv, np, field_meta, now_year) ==
    IF ~field_filled(doc, field_meta.path) THEN Outcome(doc, sv, np, "no_value")
    ELSE With(resolve_dynamic_path(doc, field_meta.path), LAMBDA resolved_path :
            IF validate_value(field_meta, get_by_path(doc, resolved_path), now_year).ok
            THEN With(SectionLoop(doc, sv, field_meta, section_map(workflow), 1),
                      LAMBDA s1 :
                    Saved(SetRuntime(advance_field(s1.state), <<"last_field">>,
                                     JStr(field_meta.path)),
                          IF s1.asked THEN FALSE ELSE np,
                          IF s1.asked THEN "ask_repeat" ELSE "accepted"))
            ELSE With(set_by_path(doc, resolved_path, Null), LAMBDA d1 :
                    IF IsRaise(d1) THEN Crash(doc, sv, np)
                    ELSE Outcome(d1, sv, FALSE, "rejected")))

\* lines 704-726
AddObject(doc, sv, p) ==
    LET array_path == p.target_array
        \* lines 714-720, for the document d2 that holds the longer list
        index(d2, position) ==
            With(DictGetOr(d2, <<"workflow_runtime">>, EmptyDict), LAMBDA runtime :
               IF ~IsDict(runtime)
                  \/ ~IsDict(DictGetOr(runtime, <<"array_index">>, EmptyDict))
               THEN Crash(doc, sv, TRUE)
               ELSE With(SetRuntime(d2, <<"array_index">>,
                            DictSet(DictGetOr(runtime, <<"array_index">>, EmptyDict),
                                    array_path.s, JInt(position))), LAMBDA d3 :
                    With(find_section_start(meta_fields, array_path.s),
                         LAMBDA section_start :
                       Outcome(IF IsNull(section_start) THEN d3
                               ELSE set_active_index(d3, section_start),
                               sv, TRUE, "add_object"))))
    IN IF ~IsStr(array_path) THEN Crash(doc, sv, TRUE)
       ELSE With(get_by_path(doc, array_path.s), LAMBDA found :
            With(IF IsList(found) THEN doc
                 ELSE set_by_path(doc, array_path.s, EmptyList), LAMBDA d1 :
            With(IF IsList(found) THEN found ELSE EmptyList, LAMBDA arr :
               \* arr.append({}) changes the list the document holds at the path
               With(IF IsRaise(d1) THEN Raise
                    ELSE set_by_path(d1, array_path.s, JList(Append(arr.l, EmptyDict))),
                    LAMBDA d2 :
                  IF IsRaise(d2) THEN Crash(doc, sv, TRUE)
                  ELSE index(d2, Len(arr.l))))))

\* lines 730-743, then STEP 3
NotHandled(doc, sv, field_meta, user, now_year) ==
    LET retries == DictGetOr(Runtime(doc), <<"clarify_retries">>, JInt(0)).n
    IN IF HasDigit(user)
       THEN Outcome(SetRuntime(doc, <<"clarify_retries">>, JInt(retries + 1)),
                    sv, FALSE, "clarify")
       ELSE Validate(SetRuntime(doc, <<"clarify_retries">>, JInt(0)),
                     sv, TRUE, field_meta, now_year)

\* the loop over the patches, lines 690-729
RECURSIVE Interpret(_, _, _, _, _, _)
Interpret(doc, sv, field_meta, user, patches, now_year) ==
    IF patches = <<>> THEN NotHandled(doc, sv, field_meta, user, now_year)
    ELSE LET p == Head(patches)
         IN IF p.operation = "uncertain" THEN Outcome(doc, sv, TRUE, "uncertain")
            ELSE IF p.operation = "replace"
            THEN With(set_by_path(doc, resolve_dynamic_path(doc, field_meta.path),
                                  p.value), LAMBDA d1 :
                    IF IsRaise(d1) THEN Crash(doc, sv, TRUE)
                    ELSE Outcome(d1, sv, TRUE, "replace"))
            ELSE IF p.operation = "add_object" THEN AddObject(doc, sv, p)
            ELSE Interpret(doc, sv, field_meta, user, Tail(patches), now_year)

\* the loop body from line 683 on: deterministic capture, then the extractor
CaptureTurn(doc, sv, user, reply, now_year) ==
    LET field_meta == current_field(doc)
    IN With(deterministic_capture(doc, field_meta, user), LAMBDA c :
          IF c.raised THEN Crash(doc, sv, TRUE)
          ELSE IF c.captured THEN Validate(c.doc, sv, TRUE, field_meta, now_year)
          ELSE Interpret(doc, sv, field_meta, user,
                         extraction_agent(doc, field_meta, reply), now_year))

\* the loop body after input(): lines 623-779
TurnOutcome(doc, sv, user, reply, now_year) ==
    IF PreviousAnswer(doc, user) # <<>> THEN CorrectPrevious(doc, sv, user)
    ELSE IF Awaiting(doc) THEN RepeatDecision(doc, sv, user)
    ELSE CaptureTurn(doc, sv, user, reply, now_year)

----------------------------------------------------------------------------
(* The workflows, user texts and extractor replies of the model *)

\* datetime.now().year
CurrentYear == 2026

P_dependents == <<"dependents">>
P_status == <<"status">>
P_name == <<"name">>
P_dob == <<"dob">>
P_income_sources == <<"income_sources">>
P_amount == <<"income_sources", "[0]", ".", "amount">>
P_taxable == <<"income_sources", "[0]", ".", "taxable">>

T_yes == <<"y", "e", "s">>
T_no == <<"n", "o">>
T_own == <<"o", "w", "n">>
T_rent == <<"r", "e", "n", "t">>
T_2 == <<"2">>
T_3000 == <<"3", "0", "0", "0">>
T_1500 == <<"1", "5", "0", "0">>
T_hmm == <<"h", "m", "m">>
T_range == <<"7", "0", "-", "8", "0">>
T_adult == <<"1", "/", "1", "/", "1", "9", "9", "0">>
T_minor == <<"1", "/", "1", "/", "2", "0", "1", "5">>
T_exit == <<"e", "x", "i", "t">>
T_yess == <<"y", "e", "s", "s">>
T_y == <<"y">>

RepeatPrompt == <<"Do you have another income source?">>

\* one plain stage {dependents:int}, then the repeating stage
\* {income_sources[]:{amount:currency}} as the last stage
EndToEndWorkflow ==
    << Stage(<<Field(P_dependents, "integer")>>),
       RepeatingStage(<<Field(P_amount, "currency")>>, P_income_sources, RepeatPrompt) >>

\* an enum, then a repeating stage of two fields that ends with a yes/no
\* enum, then an integer
EnumWorkflow ==
    << Stage(<<EnumField(P_status, <<T_own, T_rent>>)>>),
       RepeatingStage(<<CurrencyField(P_amount, 100, 4000),
                        EnumField(P_taxable, <<T_yes, T_no>>)>>,
                      P_income_sources, RepeatPrompt),
       Stage(<<Field(P_dependents, "integer")>>) >>

\* a repeating stage of one field first, then a stage of three fields
RepeatFirstWorkflow ==
    << RepeatingStage(<<CurrencyField(P_amount, 100, 4000)>>,
                      P_income_sources, RepeatPrompt),
       Stage(<<Field(P_dependents, "integer"), Field(P_dob, "date"),
               Field(P_name, "string")>>) >>

\* a repeating stage of one yes/no enum first, then an integer
EnumRepeatWorkflow ==
    << RepeatingStage(<<EnumField(P_taxable, <<T_yes, T_no>>)>>,
                      P_income_sources, RepeatPrompt),
       Stage(<<Field(P_dependents, "integer")>>) >>

Workflows == {EndToEndWorkflow, EnumWorkflow, RepeatFirstWorkflow, EnumRepeatWorkflow}

UserTexts == {T_yes, T_no, T_y, T_rent, T_2, T_3000, T_1500, T_range, T_adult, T_minor}

\* the replies of the extractor when the active field resolves to target_path
Replies(target_path) ==
    LET here == JStr(target_path)
        elsewhere == JStr(<<"workflow_runtime", ".", "active_index">>)
        one(p) == Reply("patches", <<p>>)
    IN { Reply("raise", <<>>), Reply("no_array", <<>>), Reply("bad_json", <<>>),
         Reply("non_dict", <<>>), Reply("patches", <<>>),
         one(Patch("replace", here, JInt(1500), Null)),
         one(Patch("replace", here, JStr(T_hmm), Null)),
         one(Patch("replace", elsewhere, JInt(1500), Null)),
         one(Patch("uncertain", here, Null, Null)),
         one(Patch("uncertain", Null, Null, Null)),
         one(Patch("none", here, Null, Null)),
         one(Patch("none", elsewhere, Null, Null)),
         one(Patch("fly", here, JInt(1500), Null)),
         one(Patch("add_object", Null, Null, JStr(P_income_sources))),
         one(Patch("add_object", Null, Null, JStr(P_dependents))),
         one(Patch("add_object", Null, Null, JStr(<<"workflow_runtime">>))),
         one(Patch("add_object", Null, Null, Null)),
         Reply("patches", <<Patch("replace", elsewhere, JInt(2), Null),
                            Patch("replace", here, JInt(1500), Null)>>),
         Reply("patches", <<Patch("none", here, Null, Null),
                            Patch("add_object", Null, Null, JStr(P_income_sources))>>) }

\* the answers of the end-to-end scenario
Script == <<T_2, T_3000, T_yes, T_1500, T_no>>

----------------------------------------------------------------------------
(* The state machine *)

\* load_state with DEV_ALWAYS_NEW: the schema template (empty here), the
\* application id and a fresh workflow_runtime, saved
NewApplication ==
    JDict(<< [k |-> <<"application_id">>, v |-> JStr(<<"APP">>)],
             [k |-> <<"workflow_runtime">>,
              v |-> JDict(<<[k |-> <<"active_index">>, v |-> JInt(0)]>>)] >>)

Init ==
    /\ workflow \in Workflows
    /\ state = NewApplication
    /\ saved = NewApplication
    /\ need_prompt = TRUE
    /\ pc = "top"
    /\ last_turn = "start"
    /\ script = 0
    /\ turns = 0
    /\ args = <<>>
    /\ ret = Pending

\* the top of the loop, lines 612-620: complete, or ask the current field
LoopTop ==
    /\ pc = "top"
    /\ LET idx == ActiveIndexValue(state)
       IN pc' = IF ~IsInt(idx) THEN "crashed"
                ELSE IF idx.n >= Len(meta_fields) THEN "done"
                ELSE IF ~InRange(meta_fields, idx.n) THEN "crashed"
                ELSE "input"
    /\ last_turn' = "top"
    /\ UNCHANGED <<workflow, state, saved, need_prompt, script, turns, call>>

\* lines 622-626: the user leaves
Exit ==
    /\ pc = "input"
    /\ \E user \in {T_exit} : IsExit(user)
    /\ pc' = "exit"
    /\ need_prompt' = TRUE
    /\ last_turn' = "exit"
    /\ script' = -1
    /\ UNCHANGED <<workflow, state, saved, turns, call>>

Take(user, o) ==
    /\ turns' = turns + 1
    /\ \E out \in {o} :
          /\ state' = out.state
          /\ saved' = out.saved
          /\ need_prompt' = out.need_prompt
          /\ pc' = out.pc
          /\ last_turn' = out.branch
    /\ script' = IF script >= 0 /\ script < Len(Script) /\ user = Script[script + 1]
                 THEN script + 1
                 ELSE -1
    /\ UNCHANGED <<workflow, call>>

Step(user, o) ==
    /\ turns < MaxTurns
    /\ Take(user, o)

\* a turn that corrects the previous answer (lines 628-641)
Correction ==
    /\ pc = "input"
    /\ \E user \in UserTexts :
          /\ PreviousAnswer(state, user) # <<>>
          /\ Step(user, CorrectPrevious(state, saved, user))

\* a turn that answers the repeat prompt (lines 645-679)
RepeatAnswer ==
    /\ pc = "input"
    /\ Awaiting(state)
    /\ \E user \in UserTexts :
          /\ PreviousAnswer(state, user) = <<>>
          /\ Step(user, RepeatDecision(state, saved, user))

\* a turn that deterministic capture settles (line 683, then STEP 3)
Capture ==
    /\ pc = "input"
    /\ ~Awaiting(state)
    /\ \E user \in UserTexts :
          /\ PreviousAnswer(state, user) = <<>>
          /\ \E field_meta \in {current_field(state)} :
             \E c \in {deterministic_capture(state, field_meta, user)} :
                /\ c.captured \/ c.raised
                /\ Step(user, IF c.raised THEN Crash(state, saved, TRUE)
                              ELSE Validate(c.doc, saved, TRUE, field_meta, CurrentYear))

\* a turn that goes to the extraction agent (lines 686-743, then STEP 3)
Extract ==
    /\ pc = "input"
    /\ ~Awaiting(state)
    /\ \E user \in UserTexts :
          /\ PreviousAnswer(state, user) = <<>>
          /\ \E field_meta \in {current_field(state)} :
             \E c \in {deterministic_capture(state, field_meta, user)} :
                /\ ~c.captured /\ ~c.raised
                /\ \E reply \in Replies(resolve_dynamic_path(state, field_meta.path)) :
                      Step(user, Interpret(state, saved, field_meta, user,
                                           extraction_agent(state, field_meta, reply),
                                           CurrentYear))

Next == LoopTop \/ Exit \/ Correction \/ RepeatAnswer \/ Capture \/ Extract

Spec == Init /\ [][Next]_vars

----------------------------------------------------------------------------
(* The runs of a user who answers well: every answer is a value that
   deterministic capture takes and validate_value accepts for the field that is
   asked, and every repeat prompt is answered no.  No extractor is involved:
   such an answer never reaches it. *)

P_previous_status == <<"previous_status">>

\* two adjacent enums with the same allowed values, then an integer
AdjacentEnumWorkflow ==
    << Stage(<<EnumField(P_status, <<T_own, T_rent>>),
               EnumField(P_previous_status, <<T_own, T_rent>>),
               Field(P_dependents, "integer")>>) >>

GoodWorkflows == Workflows \cup {AdjacentEnumWorkflow}

\* the answer is a good one for what the run asks in this state
IsGood(doc, user) ==
    IF Awaiting(doc) THEN strip(lower(user)) \in {<<"n", "o">>, <<"n">>}
    ELSE \E field_meta \in {current_field(doc)} :
         \E c \in {deterministic_capture(doc, field_meta, user)} :
            /\ c.captured
            /\ validate_value(field_meta,
                              get_by_path(c.doc, resolve_dynamic_path(c.doc, field_meta.path)),
                              CurrentYear).ok

GoodInit ==
    /\ workflow \in GoodWorkflows
    /\ state = NewApplication
    /\ saved = NewApplication
    /\ need_prompt = TRUE
    /\ pc = "top"
    /\ last_turn = "start"
    /\ script = 0
    /\ turns = 0
    /\ args = <<>>
    /\ ret = Pending

\* a turn of the loop (lines 622-779) on a good answer
GoodAnswer ==
    /\ pc = "input"
    /\ turns < MaxGoodTurns
    /\ \E user \in UserTexts :
          /\ IsGood(state, user)
          /\ Take(user, TurnOutcome(state, saved, user, Reply("patches", <<>>),
                                    CurrentYear))

GoodNext == LoopTop \/ GoodAnswer

GoodSpec == GoodInit /\ [][GoodNext]_vars

----------------------------------------------------------------------------
(* Direct calls of the patch engine: apply_patches(state, patches) *)

T_primer_shown == <<"P", "r", "i", "m", "e", "r", " ", "s", "h", "o", "w", "n">>
T_ok == <<"o", "k">>

P_a_b == <<"a", ".", "b">>
P_items == <<"items">>
P_slash_flag == <<"/", "workflow_flags", "/", "expense_primer_shown">>

EnginePatch(operation, path, value) ==
    JDict(<< [k |-> <<"operation">>, v |-> JStr(<<operation>>)],
             [k |-> <<"path">>, v |-> path],
             [k |-> <<"value">>, v |-> value] >>)

Justified(patch, justification) == DictSet(patch, <<"justification">>, justification)

\* the patches of the batches
EnginePatches ==
    { EnginePatch("replace", JStr(PrimerFlagPath), JBool(TRUE)),
      Justified(EnginePatch("replace", JStr(PrimerFlagPath), JBool(TRUE)), JStr(T_ok)),
      Justified(EnginePatch("replace", JStr(PrimerFlagPath), JBool(TRUE)),
                JStr(T_primer_shown)),
      Justified(EnginePatch("add", JStr(P_slash_flag), JBool(TRUE)), JStr(T_ok)),
      Justified(EnginePatch("replace", JStr(PrimerFlagPath), JBool(TRUE)), Null),
      EnginePatch("replace", JStr(PrimerFlagPath), JBool(FALSE)),
      EnginePatch("replace", JStr(P_a_b), JInt(2)),
      EnginePatch("add", JStr(<<"c">>), JInt(3)),
      EnginePatch("none", JStr(P_a_b), Null),
      EnginePatch("append", JStr(P_items), JInt(4)),
      EnginePatch("append", JStr(P_a_b), JInt(4)),
      EnginePatch("replace", Null, JInt(2)) }

\* the documents apply_patches is called on
EngineDocuments ==
    { EmptyDict,
      JDict(<< [k |-> <<"workflow_flags">>,
                v |-> JDict(<<[k |-> <<"expense_primer_shown">>, v |-> JBool(FALSE)]>>)] >>),
      JDict(<< [k |-> <<"a">>, v |-> JDict(<<[k |-> <<"b">>, v |-> JInt(1)]>>)],
               [k |-> <<"items">>, v |-> JList(<<JInt(1)>>)] >>),
      JDict(<< [k |-> <<"a">>, v |-> JInt(5)] >>) }

Batches == UNION {[1..n -> EnginePatches] : n \in 0..MaxBatch}

\* run() is not running
NoRun ==
    /\ workflow = <<>>
    /\ state = EmptyDict
    /\ saved = EmptyDict
    /\ need_prompt = FALSE
    /\ pc = "idle"
    /\ last_turn = "start"
    /\ script = 0
    /\ turns = 0

run_vars == <<workflow, state, saved, need_prompt, pc, last_turn, script, turns>>

PatchInit ==
    /\ NoRun
    /\ args \in [state : EngineDocuments, patches : Batches]
    /\ ret = Pending

ApplyPatches ==
    /\ ret = Pending
    /\ ret' = apply_patches(args.state, args.patches)
    /\ UNCHANGED <<args, run_vars>>

PatchNext == ApplyPatches

PatchSpec == PatchInit /\ [][PatchNext]_vars

----------------------------------------------------------------------------
(* Direct calls of the path utilities: set_by_path(state, path, value) *)

P_a == <<"a">>
P_a_b_c == <<"a", ".", "b", ".", "c">>
P_a_0 == <<"a", "[0]">>
P_a_1 == <<"a", "[1]">>
P_a_0_b == <<"a", "[0]", ".", "b">>
P_a_1_b == <<"a", "[1]", ".", "b">>
P_a_b_0 == <<"a", ".", "b", "[0]">>

PathPaths == {P_a, P_a_b, P_a_b_c, P_a_0, P_a_1, P_a_0_b, P_a_1_b, P_a_b_0}

\* the document {"a": value}
Holding(value) == JDict(<<[k |-> <<"a">>, v |-> value]>>)

\* documents in which the first segment is missing, or holds null, a scalar,
\* a dict or a list
PathDocuments ==
    { EmptyDict,
      Holding(Null), Holding(JInt(5)), Holding(JStr(<<"x", "y">>)),
      Holding(EmptyDict), Holding(EmptyList),
      Holding(JDict(<<[k |-> <<"b">>, v |-> JInt(1)]>>)),
      Holding(JDict(<<[k |-> <<"b">>, v |-> Null]>>)),
      Holding(JDict(<<[k |-> <<"b">>, v |-> EmptyList]>>)),
      Holding(JDict(<<[k |-> <<"b">>, v |-> EmptyDict]>>)),
      Holding(JList(<<JInt(1)>>)),
      Holding(JList(<<EmptyDict>>)),
      Holding(JList(<<Null, JDict(<<[k |-> <<"b">>, v |-> JInt(1)]>>)>>)) }

PathValues == {JInt(7), JStr(<<"v">>), EmptyDict, Null}

PathInit ==
    /\ NoRun
    /\ args \in [state : PathDocuments, path : PathPaths, value : PathValues]
    /\ ret = Pending

\* the call: the document it leaves, or the exception
SetByPath ==
    /\ ret = Pending
    /\ \E doc \in {set_by_path(args.state, args.path, args.value)} :
          ret' = IF IsRaise(doc) THEN doc ELSE [t |-> "returned", state |-> doc]
    /\ UNCHANGED <<args, run_vars>>

PathNext == SetByPath

PathSpec == PathInit /\ [][PathNext]_vars

----------------------------------------------------------------------------
(* Direct calls of the resolver: resolve_dynamic_path(state, path) *)

\* The array paths "income_sources", "sources" and "jobs".  "income_sources"
\* is written as the two tokens "income_" and "sources", so that str.replace
\* sees the occurrence of "sources[0]" in "income_sources[0]" as Python does.
A_income_sources == <<"income_", "sources">>
A_sources == <<"sources">>
A_jobs == <<"jobs">>

ArrayPaths == {A_income_sources, A_sources, A_jobs}

\* the template paths of the fields: one per section, and a plain field
TemplatePaths ==
    { A_income_sources \o <<"[0]", ".", "amount">>,
      A_sources \o <<"[0]", ".", "kind">>,
      A_jobs \o <<"[0]", ".", "title">>,
      <<"dependents">> }

\* array_index maps of up to two sections, in either insertion order
IndexMaps ==
    { JDict(m) : m \in
        {<<>>}
          \cup { <<[k |-> a, v |-> JInt(i)]>> : a \in ArrayPaths, i \in 0..MaxIndex }
          \cup { <<[k |-> ab[1], v |-> JInt(i)], [k |-> ab[2], v |-> JInt(j)]>> :
                    ab \in {x \in ArrayPaths \X ArrayPaths : x[1] # x[2]},
                    i \in 0..MaxIndex, j \in 0..MaxIndex } }

\* the document whose workflow_runtime holds the array_index map
WithIndices(indices) ==
    JDict(<< [k |-> <<"workflow_runtime">>,
              v |-> JDict(<<[k |-> <<"array_index">>, v |-> indices]>>)] >>)

ResolveInit ==
    /\ NoRun
    /\ args \in [state : {WithIndices(m) : m \in IndexMaps}, path : TemplatePaths]
    /\ ret = Pending

ResolveDynamicPath ==
    /\ ret = Pending
    /\ ret' = [t |-> "returned", path |-> resolve_dynamic_path(args.state, args.path)]
    /\ UNCHANGED <<args, run_vars>>

ResolveNext == ResolveDynamicPath

ResolveSpec == ResolveInit /\ [][ResolveNext]_vars

----------------------------------------------------------------------------
(* Direct calls of the validator: validate_value(field_meta, value) on a date
   field, on the day datetime.now() returns *)

\* the text DD/MM/YYYY of a date
DateText(d, m, y) ==
    << Digits[(d \div 10) + 1], Digits[(d % 10) + 1], "/",
       Digits[(m \div 10) + 1], Digits[(m % 10) + 1], "/",
       Digits[(y \div 1000) + 1], Digits[((y \div 100) % 10) + 1],
       Digits[((y \div 10) % 10) + 1], Digits[(y % 10) + 1] >>

\* the dates of birth: around the years 1900 and eighteen years before today
BirthDates ==
    { b \in [day : {1, 4, 5, 28, 29, 31}, month : {1, 2, 11, 12},
             year : {1899, 1900, 2005, 2006, 2007, 2008, 2009}] :
         b.day <= DaysInMonth(b.year, b.month) }

\* the days on which the call is made
Todays ==
    { [day |-> 4, month |-> 11, year |-> 2026],
      [day |-> 1, month |-> 1, year |-> 2026],
      [day |-> 29, month |-> 2, year |-> 2024] }

ValidateInit ==
    /\ NoRun
    /\ args \in [field_meta : {Field(P_dob, "date")},
                 value : {JStr(DateText(b.day, b.month, b.year)) : b \in BirthDates},
                 today : Todays]
    /\ ret = Pending

ValidateValue ==
    /\ ret = Pending
    /\ ret' = [t |-> "returned",
               result |-> validate_value(args.field_meta, args.value, args.today.year)]
    /\ UNCHANGED <<args, run_vars>>

ValidateNext == ValidateValue

ValidateSpec == ValidateInit /\ [][ValidateNext]_vars

----------------------------------------------------------------------------
(* Properties of the turn loop *)

\* the resolved path of the active field, and the turn the loop body makes of
\* an answer and a reply of the extractor in the present state
Target == resolve_dynamic_path(state, current_field(state).path)
Turn(user, reply) == TurnOutcome(state, saved, user, reply, CurrentYear)

RuntimeValue(doc, key) == DictGetOr(Runtime(doc), <<key>>, Null)

\* the active field is the last field of a repeating stage
LastOfRepeatingStage(doc) ==
    LET sections == section_map(workflow).kv
    IN \E i \in 1..Len(sections) :
          /\ InSeq(current_field(doc).path, sections[i].v)
          /\ is_last_field_of_section(meta_fields, get_active_index(doc), sections[i].v)

\* the 0-based index of the first field after the stage of array_path: the
\* sequence length when the stage is the last one
FirstFieldAfter(array_path) ==
    LET inside == {i \in 1..Len(meta_fields) :
                      StartsWith(meta_fields[i].path, array_path \o <<"[0]">>)}
    IN CHOOSE i \in inside : \A j \in inside : j <= i

ItemsAt(doc, array_path) ==
    LET found == get_by_path(doc, array_path)
    IN IF IsList(found) THEN found.l ELSE <<>>

\* C1: with the schema {dependents:int} then the repeating last stage
\* {income_sources[]:{amount:currency}}, the answers "2", "3000", "yes",
\* "1500", "no" are all consumed before the run completes, and they end with
\* dependents = 2, income_sources = [{amount:3000},{amount:1500}] and
\* active_index at the length of the field sequence.
C1_EndToEnd ==
    workflow = EndToEndWorkflow =>
        /\ script \in 1..(Len(Script) - 1) => pc # "done"
        /\ script = Len(Script) /\ pc = "done" =>
              /\ get_by_path(state, P_dependents) = JInt(2)
              /\ get_by_path(state, P_income_sources)
                    = JList(<< JDict(<<[k |-> <<"amount">>, v |-> JInt(3000)]>>),
                               JDict(<<[k |-> <<"amount">>, v |-> JInt(1500)]>>) >>)
              /\ ActiveIndexValue(state) = JInt(Len(meta_fields))

\* C2: a turn that captures an accepted value for the last field of a
\* repeating stage sets awaiting_repeat_for to the array path and
\* repeat_prompt to the prompt of the stage, and leaves active_index as it was.
C2_CursorHeldWhilePending ==
    pc = "input" /\ LastOfRepeatingStage(state) =>
        \A user \in UserTexts : \A reply \in Replies(Target) :
            LET o == Turn(user, reply)
                array_path == RuntimeValue(o.state, "awaiting_repeat_for")
            IN o.branch \in {"accepted", "ask_repeat"} =>
                  /\ IsStr(array_path)
                  /\ StartsWith(current_field(state).path, array_path.s)
                  /\ RuntimeValue(o.state, "repeat_prompt")
                        = JStr(workflow_stage_repeat_prompt(workflow, array_path.s))
                  /\ ActiveIndexValue(o.state) = ActiveIndexValue(state)

\* C3: while a repeat decision is awaited, the answer yes or y appends one
\* empty item to the target array and leaves the other items alone, sets
\* array_index[array_path] to the position of the new item, sets active_index
\* to the first field of the stage and clears awaiting_repeat_for and
\* repeat_prompt.
C3_AffirmativeAppends ==
    pc = "input" /\ Awaiting(state) =>
        \A user \in {T_yes, <<"y">>} : \A reply \in Replies(Target) :
            LET o == Turn(user, reply)
                array_path == RuntimeValue(state, "awaiting_repeat_for").s
                before == ItemsAt(state, array_path)
                after == ItemsAt(o.state, array_path)
            IN /\ after = Append(before, EmptyDict)
               /\ DictGetOr(Indices(o.state), array_path, Null) = JInt(Len(before))
               /\ ActiveIndexValue(o.state) = find_section_start(meta_fields, array_path)
               /\ ~HasKey(Runtime(o.state), <<"awaiting_repeat_for">>)
               /\ ~HasKey(Runtime(o.state), <<"repeat_prompt">>)

\* C4: while a repeat decision is awaited, the answer no or n clears
\* awaiting_repeat_for and repeat_prompt and leaves active_index at the first
\* field that follows the repeating stage.
C4_NegativeMovesPastStage ==
    pc = "input" /\ Awaiting(state) =>
        \A user \in {T_no, <<"n">>} : \A reply \in Replies(Target) :
            LET o == Turn(user, reply)
                array_path == RuntimeValue(state, "awaiting_repeat_for").s
            IN /\ ~HasKey(Runtime(o.state), <<"awaiting_repeat_for">>)
               /\ ~HasKey(Runtime(o.state), <<"repeat_prompt">>)
               /\ ActiveIndexValue(o.state) = JInt(FirstFieldAfter(array_path))

\* C5: while awaiting_repeat_for is set, a turn is the repeat decision and
\* nothing else, whatever the answer and whatever the extractor would say.
C5_AwaitingTurnIsRepeatDecision ==
    pc = "input" /\ Awaiting(state) =>
        \A user \in UserTexts : \A reply \in Replies(Target) :
            Turn(user, reply) = RepeatDecision(state, saved, user)

\* C6: while a repeat decision is awaited, an answer that is none of yes, y,
\* no, n leaves the whole state document as it was.
C6_OtherAnswerChangesNothing ==
    pc = "input" /\ Awaiting(state) =>
        \A user \in UserTexts \cup {T_hmm, T_yess} : \A reply \in Replies(Target) :
            strip(lower(user)) \notin {T_yes, <<"y">>, T_no, <<"n">>} =>
                Turn(user, reply).state = state

\* C7: in every reachable state 0 <= active_index <= the length of the
\* flattened field sequence.
C7_CursorInRange ==
    LET idx == ActiveIndexValue(state)
    IN IsInt(idx) /\ 0 <= idx.n /\ idx.n <= Len(meta_fields)

\* C8: after a turn the active field holds no value that the validator rejects.
C8_NoRejectedValueStays ==
    pc = "input" /\ turns > 0 /\ field_filled(state, current_field(state).path) =>
        validate_value(current_field(state), get_by_path(state, Target), CurrentYear).ok

\* an answer that the loop hands to the extractor in the present state
GoesToExtractor(user) ==
    /\ PreviousAnswer(state, user) = <<>>
    /\ ~Awaiting(state)
    /\ LET c == deterministic_capture(state, current_field(state), user)
       IN ~c.captured /\ ~c.raised

\* C9: whatever the extractor returns, the turn ends without an exception and
\* the loop can take the next input.
C9_ExtractorOutputNeverRaises ==
    pc = "input" =>
        \A user \in UserTexts :
            GoesToExtractor(user) =>
                \A reply \in Replies(Target) : Turn(user, reply).pc # "crashed"

\* a proposal that the path-equality rule is about, with another path
Mismatch(p, target_path) ==
    /\ p.operation \in {"replace", "uncertain", "none"}
    /\ ~(IsStr(p.path) /\ p.path.s = target_path)

RECURSIVE WithoutMismatches(_, _)
WithoutMismatches(patches, target_path) ==
    IF patches = <<>> THEN <<>>
    ELSE IF Mismatch(Head(patches), target_path)
    THEN WithoutMismatches(Tail(patches), target_path)
    ELSE <<Head(patches)>> \o WithoutMismatches(Tail(patches), target_path)

\* the replies that hold a proposal with another path
MismatchReplies(target_path) ==
    {r \in Replies(target_path) :
        \E i \in 1..Len(r.patches) : Mismatch(r.patches[i], target_path)}

\* what the loop makes of a reply once an answer has gone to the extractor
Extracted(user, reply) ==
    Interpret(state, saved, current_field(state), user,
              extraction_agent(state, current_field(state), reply), CurrentYear)

\* C10: a replace, uncertain or none proposal whose path is not the resolved
\* path of the active field has no effect on the turn: the turn ends as it
\* ends without that proposal (as a turn with no proposal when nothing else
\* was proposed), and an add_object proposal passes whatever its path.
C10_MismatchDiscarded ==
    pc = "input" =>
        \A target_path \in {Target} :
            /\ \A user \in {u \in UserTexts : GoesToExtractor(u)} :
               \A reply \in MismatchReplies(target_path) :
                  Extracted(user, reply)
                     = Extracted(user, Reply("patches",
                                             WithoutMismatches(reply.patches, target_path)))
            /\ \A reply \in Replies(target_path) : \A i \in 1..Len(reply.patches) :
                  reply.patches[i].operation = "add_object" =>
                     InSeq(reply.patches[i],
                           extraction_agent(state, current_field(state), reply))

\* C10: a turn went to the extractor and ended with the request to clarify,
\* in a state where the filter leaves nothing of a reply
C10_Witness ==
    /\ last_turn = "clarify"
    /\ IsInt(ActiveIndexValue(state))
    /\ InRange(meta_fields, get_active_index(state))
    /\ \E reply \in MismatchReplies(Target) :
          extraction_agent(state, current_field(state), reply) = <<>>

\* the index array_index records for an array path, 0 when there is none
RecordedIndex(doc, array_path) == DictGetOr(Indices(doc), array_path, JInt(0))

\* C15: a turn that changes the state document ends with the saved document
\* equal to the state document.
C15_PersistedAfterMutation ==
    [][(turns' = turns + 1 /\ state' # state) => saved' = state']_vars

\* C16: while the index recorded for a repeating section is not 0, no turn
\* writes the template path (item 0) of a field of that section.
C16_TemplatePathNotWritten ==
    [][\A i \in 1..Len(meta_fields) :
       \A j \in 1..Len(section_map(workflow).kv) :
          \E section \in {section_map(workflow).kv[j]} :
             (/\ InSeq(meta_fields[i].path, section.v)
              /\ RecordedIndex(state, section.k) # JInt(0)
              /\ RecordedIndex(state', section.k) # JInt(0)) =>
                get_by_path(state', meta_fields[i].path)
                   = get_by_path(state, meta_fields[i].path)]_vars

\* C17: every key of array_index is the path of a list of the state document
\* that has at least one element, and the index recorded for it is a position
\* of that list.
C17_ArrayIndexValid ==
    \A i \in 1..Len(Indices(state).kv) :
        \E entry \in {Indices(state).kv[i]} :
        \E found \in {get_by_path(state, entry.k)} :
           /\ IsList(found)
           /\ Len(found.l) >= 1
           /\ IsInt(entry.v)
           /\ 0 <= entry.v.n /\ entry.v.n < Len(found.l)

\* the first proposal the loop over the patches acts on, Null when there is
\* none
RECURSIVE FirstSignal(_)
FirstSignal(patches) ==
    IF patches = <<>> THEN Null
    ELSE IF Head(patches).operation \in {"uncertain", "replace", "add_object"}
    THEN Head(patches)
    ELSE FirstSignal(Tail(patches))

\* the replies whose first proposal acted on has the given operation
SignalReplies(operation) ==
    {r \in Replies(Target) :
        \E p \in {FirstSignal(extraction_agent(state, current_field(state), r))} :
            p # Null /\ p.operation = operation}

\* C18: when deterministic capture fails and the extractor proposes a replace
\* for the active field, the turn writes the value to the resolved path and
\* validates it: a rejected value is cleared, and on acceptance the cursor
\* moves in that turn (active_index advances by one, or the repeat decision
\* is entered when the field ends a repeating stage) and the state is saved.
C18_ReplaceValidatedInTurn ==
    pc = "input" =>
        \A user \in {u \in UserTexts : GoesToExtractor(u)} :
        \A reply \in SignalReplies("replace") :
           \E o \in {Extracted(user, reply)} :
           \E value \in {FirstSignal(extraction_agent(state, current_field(state),
                                                      reply)).value} :
              IF Truthy(value) /\ validate_value(current_field(state), value, CurrentYear).ok
              THEN /\ get_by_path(o.state, Target) = value
                   /\ IF LastOfRepeatingStage(state)
                      THEN Awaiting(o.state)
                      ELSE ActiveIndexValue(o.state) = JInt(get_active_index(state) + 1)
                   /\ o.saved = o.state
              ELSE ~field_filled(o.state, current_field(state).path)

\* the 0-based index of the first field of the stage of array_path
FirstFieldOf(array_path) ==
    LET inside == {i \in 1..Len(meta_fields) :
                      StartsWith(meta_fields[i].path, array_path \o <<"[0]">>)}
    IN (CHOOSE i \in inside : \A j \in inside : i <= j) - 1

\* the array path is the one of a repeating stage of the workflow
IsCollection(array_path) ==
    \E j \in 1..Len(section_map(workflow).kv) : section_map(workflow).kv[j].k = array_path

\* (the answers are one without and one with a digit: apart from that the
\* loop over the patches does not read the answer)
\* C19: when the loop acts on an add_object proposal that names a repeating
\* collection of the schema, whatever the active field, the turn appends one
\* empty item to that array and leaves its other items alone, records the
\* position of the new item in array_index, puts active_index on the first
\* field of the stage of the collection and leaves no repeat decision pending.
C19_AddObjectStartsNewItem ==
    pc = "input" =>
        \A user \in {u \in {T_hmm, T_range} : GoesToExtractor(u)} :
        \A reply \in SignalReplies("add_object") :
           \E target \in {FirstSignal(extraction_agent(state, current_field(state),
                                                       reply)).target_array} :
              (IsStr(target) /\ IsCollection(target.s)) =>
                 \E o \in {Extracted(user, reply)} :
                 \E before \in {ItemsAt(state, target.s)} :
                    /\ o.pc = "top"
                    /\ ItemsAt(o.state, target.s) = Append(before, EmptyDict)
                    /\ DictGetOr(Indices(o.state), target.s, Null) = JInt(Len(before))
                    /\ ActiveIndexValue(o.state) = JInt(FirstFieldOf(target.s))
                    /\ ~Awaiting(o.state)

\* C19: an add_object turn taken while dependents was the active field has
\* started the first item of income_sources
C19_Witness ==
    /\ last_turn = "add_object"
    /\ workflow = EndToEndWorkflow
    /\ ItemsAt(state, P_income_sources) = <<EmptyDict>>
    /\ DictGetOr(Indices(state), P_income_sources, Null) = JInt(0)
    /\ ActiveIndexValue(state) = JInt(1)
    /\ get_by_path(state, P_dependents) = Null

\* C20: a turn that yields a signal (a value captured deterministically, or a
\* replace, uncertain or add_object proposal) leaves clarify_retries at 0.
C20_RetriesResetBySignal ==
    last_turn \in {"accepted", "ask_repeat", "rejected", "replace", "uncertain",
                   "add_object"} =>
        DictGetOr(Runtime(state), <<"clarify_retries">>, JInt(0)) = JInt(0)

\* the field holds a non-empty value at the concrete path that validate_value
\* accepts
HoldsAccepted(doc, field, path) ==
    \E val \in {get_by_path(doc, path)} :
       /\ ~IsNull(val)
       /\ ~IsRaise(val)
       /\ ~(IsStr(val) /\ strip(val.s) = <<>>)
       /\ validate_value(field, val, CurrentYear).ok

\* the field has its value: on every item of the array for a field of a
\* repeating stage, which has at least one item
Answered(doc, field) ==
    LET sections == section_map(workflow).kv
        own == {j \in 1..Len(sections) : InSeq(field.path, sections[j].v)}
    IN IF own = {} THEN HoldsAccepted(doc, field, field.path)
       ELSE \A j \in own :
               /\ ItemsAt(doc, sections[j].k) # <<>>
               /\ \A n \in 0..(Len(ItemsAt(doc, sections[j].k)) - 1) :
                     HoldsAccepted(doc, field,
                        sections[j].k \o <<IndexToken(n)>>
                           \o SubSeq(field.path, Len(sections[j].k) + 2, Len(field.path)))

\* C23: whenever active_index equals the length of the field sequence, every
\* field of the sequence holds a non-empty accepted value: each non-repeating
\* field, and each field of the repeating stage on every item of its array.
C23_CompleteMeansAllAnswered ==
    get_active_index(state) = Len(meta_fields) =>
        \A i \in 1..Len(meta_fields) : Answered(state, meta_fields[i])

\* the state document without the bookkeeping of workflow_runtime
Answers(doc) == DictPop(doc, <<"workflow_runtime">>)

\* the two documents differ at most in workflow_runtime and at the path
SameExceptAt(before, after, path) ==
    set_by_path(Answers(after), path, Null) = set_by_path(Answers(before), path, Null)

\* the second document is the first with one empty item appended to the array
\* of a repeating stage of the workflow
OneItemAppended(before, after) ==
    \E j \in 1..Len(section_map(workflow).kv) :
       \E array_path \in {section_map(workflow).kv[j].k} :
          Answers(after)
             = set_by_path(Answers(before), array_path,
                           JList(Append(ItemsAt(before, array_path), EmptyDict)))

\* C24: a turn of the extractor changes the state document only at the
\* resolved path of the active field, or by appending one item to an array
\* that the workflow declares as a repeating collection, apart from the
\* bookkeeping of workflow_runtime; and an add_object whose target_array is
\* not a declared repeating collection changes nothing: no value is
\* overwritten, no array is created and no array_index entry is recorded.
C24_ProposalFrame ==
    pc = "input" =>
        \A user \in {u \in {T_hmm, T_range} : GoesToExtractor(u)} :
           /\ \A reply \in Replies(Target) :
                 \E o \in {Extracted(user, reply)} :
                    \/ Answers(o.state) = Answers(state)
                    \/ SameExceptAt(state, o.state, Target)
                    \/ OneItemAppended(state, o.state)
           /\ \A reply \in SignalReplies("add_object") :
                 \E target \in {FirstSignal(extraction_agent(state, current_field(state),
                                                             reply)).target_array} :
                    ~(IsStr(target) /\ IsCollection(target.s)) =>
                       \E o \in {Extracted(user, reply)} :
                          /\ Answers(o.state) = Answers(state)
                          /\ Indices(o.state) = Indices(state)

\* C25: for every schema, adjacent enum fields with common allowed values
\* included, when every answer is a deterministically capturable value that
\* the validator accepts for the field being asked and every repeat prompt is
\* answered no, active_index never decreases (the first half of the claim: a
\* run in which it decreases has not gone straight to completion).
C25_GoodAnswersNeverGoBack ==
    [][get_active_index(state') >= get_active_index(state)]_vars

----------------------------------------------------------------------------
(* Properties of the patch engine *)

\* the batch up to and including its i-th patch, and the batch without it
Prefix(patches, i) == SubSeq(patches, 1, i)
Without(seq, i) == SubSeq(seq, 1, i - 1) \o SubSeq(seq, i + 1, Len(seq))

\* the document before and after the i-th patch of the call
DocBefore(i) == apply_patches(args.state, Prefix(args.patches, i - 1)).state
DocAfter(i) == apply_patches(args.state, Prefix(args.patches, i)).state

\* the patch sets the primer flag and its justification does not mention
\* the primer
Unjustified(patch) == TargetsPrimerFlag(patch) /\ LacksPrimerKeyword(patch)

\* C11: a patch reported blocked leaves the document as it was; a patch that
\* sets workflow_flags.expense_primer_shown to true without a justification
\* that mentions the primer is reported blocked, and the call leaves the
\* document and reports the other patches as it does without that patch.
C11_BlockedLeavesStateUnchanged ==
    ret.t = "returned" =>
        \A i \in 1..Len(args.patches) :
            /\ ret.results[i].status = "blocked" => DocAfter(i) = DocBefore(i)
            /\ Unjustified(args.patches[i]) =>
                  /\ ret.results[i].status = "blocked"
                  /\ \E other \in {apply_patches(args.state, Without(args.patches, i))} :
                        /\ other.state = ret.state
                        /\ other.results = Without(ret.results, i)

C11_Witness ==
    /\ ret.t = "returned"
    /\ Len(args.patches) = 2
    /\ ret.state = args.state
    /\ \E i \in 1..2 :
          /\ Unjustified(args.patches[i])
          /\ ret.results[i].status = "blocked"
          /\ ~TargetsPrimerFlag(args.patches[3 - i])

\* no value at a path
Absent == [t |-> "absent"]

\* the value a document holds under the keys of a dotted path, or Absent
RECURSIVE ReadKeys(_, _)
ReadKeys(doc, keys) ==
    IF keys = <<>> THEN doc
    ELSE IF IsDict(doc) /\ HasKey(doc, Head(keys))
         THEN ReadKeys(DictGet(doc, Head(keys)), Tail(keys))
         ELSE Absent

ReadAt(doc, path) == ReadKeys(doc, SplitDot(path))

OperationOf(patch) == DictGetOr(patch, <<"operation">>, Null)
ValueOf(patch) == DictGetOr(patch, <<"value">>, Null)

\* C12: apply_patches returns one outcome per patch in batch order; a patch
\* is reported blocked only if it sets the primer flag without a justification
\* that mentions the primer, a none patch is reported ignored, and an add or
\* replace patch on another path is reported success and its value is
\* readable at its path once it has been applied.
C12_OutcomePerPatch ==
    ret.t = "returned" =>
        /\ Len(ret.results) = Len(args.patches)
        /\ \A i \in 1..Len(args.patches) :
              \E patch \in {args.patches[i]} :
                 /\ ret.results[i].patch = NormalizedPatch(patch)
                 /\ ret.results[i].status = "blocked" => Unjustified(patch)
                 /\ (OperationOf(patch) = JStr(<<"none">>) /\ ~Unjustified(patch)) =>
                       ret.results[i].status = "ignored"
                 /\ (/\ OperationOf(patch) \in {JStr(<<"add">>), JStr(<<"replace">>)}
                     /\ NormalizedPath(patch) # PrimerFlagPath) =>
                       /\ ret.results[i].status = "success"
                       /\ ReadAt(DocAfter(i), NormalizedPath(patch)) = ValueOf(patch)

\* C13: an append patch whose path holds no value leaves, at that path, a new
\* list that holds exactly the appended value.
C13_AppendCreatesList ==
    ret.t = "returned" =>
        \A i \in 1..Len(args.patches) :
            \E patch \in {args.patches[i]} :
               (/\ OperationOf(patch) = JStr(<<"append">>)
                /\ ReadAt(DocBefore(i), NormalizedPath(patch)) = Absent) =>
                  ReadAt(DocAfter(i), NormalizedPath(patch)) = JList(<<ValueOf(patch)>>)

----------------------------------------------------------------------------
(* Properties of the path utilities *)

\* C14: for every path, document and value, set_by_path completes without
\* raising and get_by_path then returns the value.
C14_SetGetRoundTrip ==
    ret # Pending =>
        /\ ret.t = "returned"
        /\ get_by_path(ret.state, args.path) = args.value

----------------------------------------------------------------------------
(* Properties of the resolver *)

\* the template path belongs to the section of array_path
BelongsTo(path, array_path) == StartsWith(path, array_path \o <<"[0]">>)

\* the path with the placeholder of its own section rewritten to the index
\* recorded for that section; the path itself for a section with no recorded
\* index and for a plain field
OwnIndexOnly(doc, path) ==
    IF \E a \in ArrayPaths : BelongsTo(path, a) /\ HasKey(Indices(doc), a)
    THEN LET a == CHOOSE a \in ArrayPaths : BelongsTo(path, a) /\ HasKey(Indices(doc), a)
         IN a \o <<IndexToken(DictGet(Indices(doc), a).n)>>
              \o SubSeq(path, Len(a) + 2, Len(path))
    ELSE path

\* C21: resolve_dynamic_path rewrites [0] to [i] for the section the path
\* belongs to when array_index records i for it, returns the path of a section
\* with no recorded index unchanged, and the index recorded for one section
\* changes neither the path of a field of another section nor the path of a
\* plain field.
C21_OwnSectionOnly ==
    ret # Pending => ret.path = OwnIndexOnly(args.state, args.path)

----------------------------------------------------------------------------
(* Properties of the validator *)

\* the age in whole years on the day today of a person born on the day birth
AgeOn(birth, today) ==
    today.year - birth.year
      - (IF today.month < birth.month
            \/ (today.month = birth.month /\ today.day < birth.day)
         THEN 1 ELSE 0)

\* C22: on a date field validate_value rejects with invalid_age every
\* well-formed DD/MM/YYYY date whose age on the current date, month and day
\* taken into account, is under 18 or whose year is before 1900, and accepts
\* every well-formed date of age at least 18 and year at least 1900.
C22_AgeByFullDate ==
    ret # Pending =>
        LET birth == strptime(args.value)
        IN IF AgeOn(birth, args.today) < 18 \/ birth.year < 1900
           THEN ret.result = [ok |-> FALSE, reason |-> "invalid_age"]
           ELSE ret.result.ok

====
